---- MODULE Spec2Model ----
(***************************************************************************)
(* StarConnect frontend: the notification delivery path.                   *)
(*                                                                         *)
(*   - localStorage (the four keys the client uses),                       *)
(*   - the Session/Auth accessor          (utils/auth),                    *)
(*   - the Connection Manager (SocketManager singleton, utils/socket),     *)
(*   - the Notification Store (NotificationProvider).                      *)
(*                                                                         *)
(* React's life cycle is modelled as it runs: a state update is applied at *)
(* a render, the effects that depend on the changed state run in the       *)
(* passive-effect flush after the commit, and that flush always precedes   *)
(* the next render of the component.                                       *)
(***************************************************************************)
EXTENDS Bags, Integers, Sequences, FiniteSets, TLC

(***************************************************************************)
(* Bounds of the model.                                                    *)
(***************************************************************************)
MaxLen == 3          \* longest notification list explored
MaxSockets == 2      \* transports the manager may open in one page session
MaxRegs == 3         \* registrations the listener registry may hold at once

(***************************************************************************)
(* Values.                                                                 *)
(***************************************************************************)
NoSocket == 0        \* this.socket = null
SocketIds == 1..MaxSockets

Undefined == "<undefined>"      \* a property that is absent from a payload

\* Text held by localStorage.  t classifies the text, v carries its content:
\*   absent : getItem returns null
\*   raw    : a plain string that is not JSON (v = <<the string>>)
\*   array  : JSON text of an array  (v = the serialized elements)
\*   object : JSON text of an object (v = the serialized members)
Absent == [t |-> "absent", v |-> <<>>]
Raw(s) == [t |-> "raw", v |-> <<s>>]
JsonArray(items) == [t |-> "array", v |-> items]
JsonObject(members) == [t |-> "object", v |-> members]
JsonNull == [t |-> "null", v |-> <<>>]

\* JavaScript truthiness of the result of localStorage.getItem
Truthy(txt) == txt.t # "absent" /\ txt # Raw("")

\* JSON.parse succeeds on JSON text only
Parseable(txt) == txt.t \in {"array", "object", "null"}

Keys == {"token", "user", "userRole", "starconnect_notifications"}
NKey == "starconnect_notifications"

(***************************************************************************)
(* Notification records and their JSON form.                               *)
(* A Notification has id, celebrityName, content, timestamp and an         *)
(* optional read flag; an entry without the flag is a record without the   *)
(* field.  Timestamps stand for the ISO string of that instant.  Ids are   *)
(* expressed in half milliseconds (Date.now() + Math.random()).            *)
(***************************************************************************)
HasRead(n) == "read" \in DOMAIN n
IsRead(n) == HasRead(n) /\ n.read = TRUE

BoolText(b) == IF b THEN "true" ELSE "false"

\* variant: a serializer that writes the flag only when it is true
StringifyEntry_DropFalse(n) ==
    LET core == << <<"id", n.id>>, <<"celebrityName", n.celebrityName>>,
                   <<"content", n.content>>, <<"timestamp", n.timestamp>> >>
    IN  IF IsRead(n) THEN Append(core, <<"read", "true">>) ELSE core

\* JSON.stringify of one entry: the members in property order; a property
\* that is undefined is left out.
StringifyEntry(n) ==
    LET core == << <<"id", n.id>>, <<"celebrityName", n.celebrityName>>,
                   <<"content", n.content>>, <<"timestamp", n.timestamp>> >>
    IN  IF HasRead(n) THEN Append(core, <<"read", BoolText(n.read)>>) ELSE core

\* the value of member k of a parsed object (k is present)
Member(members, k) ==
    LET i == CHOOSE j \in 1..Len(members) : members[j][1] = k
    IN  members[i][2]

HasMember(members, k) == \E j \in 1..Len(members) : members[j][1] = k

\* JSON.parse of one entry
ParseEntry(members) ==
    IF HasMember(members, "read")
    THEN [id |-> Member(members, "id"),
          celebrityName |-> Member(members, "celebrityName"),
          content |-> Member(members, "content"),
          timestamp |-> Member(members, "timestamp"),
          read |-> (Member(members, "read") = "true")]
    ELSE [id |-> Member(members, "id"),
          celebrityName |-> Member(members, "celebrityName"),
          content |-> Member(members, "content"),
          timestamp |-> Member(members, "timestamp")]

\* JSON.stringify(notifications)
StringifyList(list) == JsonArray([i \in 1..Len(list) |-> StringifyEntry(list[i])])

\* JSON.parse(saved) for the text of an array
ParseList(txt) == [i \in 1..Len(txt.v) |-> ParseEntry(txt.v[i])]

\* variant: counts only the entries whose flag is present and false
\* (n => n.read === false)
UnreadOf_StrictFalse(list) ==
    Cardinality({i \in 1..Len(list) : HasRead(list[i]) /\ list[i].read = FALSE})

\* notifications.filter(n => !n.read).length
UnreadOf(list) == Cardinality({i \in 1..Len(list) : ~IsRead(list[i])})

(***************************************************************************)
(* Session / Auth accessor.                                                *)
(***************************************************************************)
NoUser == [id |-> 0, email |-> "", type |-> "", name |-> ""]
CelebUser == [id |-> 1, email |-> "celeb@example.com", type |-> "celebrity", name |-> "Ada"]
PublicUser == [id |-> 2, email |-> "user@example.com", type |-> "public", name |-> "Bob"]

\* what POST /login answers for the two demo accounts
LoginAnswers == { [token |-> "tokC", user |-> CelebUser],
                  [token |-> "tokP", user |-> PublicUser] }

StringifyUser(u) ==
    JsonObject(<< <<"id", u.id>>, <<"email", u.email>>,
                  <<"type", u.type>>, <<"name", u.name>> >>)

\* JSON.parse of the user text (NoUser stands for null)
ParseUser(txt) ==
    IF txt = JsonNull THEN NoUser
    ELSE [id |-> Member(txt.v, "id"), email |-> Member(txt.v, "email"),
          type |-> Member(txt.v, "type"), name |-> Member(txt.v, "name")]

NoAuth == [ok |-> FALSE, token |-> "", user |-> NoUser, userRole |-> ""]

\* variant: a getAuthData() that does not test the role tag
getAuthData_NoRoleTest(ls) ==
    IF ~Truthy(ls["token"]) \/ ~Truthy(ls["user"])
    THEN NoAuth
    ELSE IF ~Parseable(ls["user"])
    THEN NoAuth
    ELSE [ok |-> TRUE, token |-> ls["token"].v[1],
          user |-> ParseUser(ls["user"]),
          userRole |-> IF Truthy(ls["userRole"]) THEN ls["userRole"].v[1] ELSE ""]

\* getAuthData(): null (ok = FALSE) when a key is missing or the user text
\* does not parse
getAuthData(ls) ==
    IF ~Truthy(ls["token"]) \/ ~Truthy(ls["user"]) \/ ~Truthy(ls["userRole"])
    THEN NoAuth
    ELSE IF ~Parseable(ls["user"])
    THEN NoAuth
    ELSE [ok |-> TRUE, token |-> ls["token"].v[1],
          user |-> ParseUser(ls["user"]), userRole |-> ls["userRole"].v[1]]

\* getAuthData() lets an exception out: never, its whole body is the try block
\* and the catch returns null
getAuthDataRaises(ls) == FALSE

\* isAuthenticated(): getAuthData() !== null
isAuthenticated(ls) == getAuthData(ls).ok

\* variant: an isCelebrity() that trusts the role tag alone
isCelebrity_RoleTagOnly(ls) ==
    getAuthData(ls).ok /\ getAuthData(ls).userRole = "celebrity"

\* isCelebrity()
isCelebrity(ls) ==
    /\ getAuthData(ls).ok
    /\ getAuthData(ls).userRole = "celebrity"
    /\ getAuthData(ls).user.type = "celebrity"

\* isPublicUser()
isPublicUser(ls) ==
    /\ getAuthData(ls).ok
    /\ getAuthData(ls).userRole = "public"
    /\ getAuthData(ls).user.type = "public"

\* isCelebrity() raises: authData.userRole === 'celebrity' holds and
\* authData.user.type is read with authData.user null
isCelebrityRaises(ls) ==
    /\ getAuthData(ls).ok
    /\ getAuthData(ls).userRole = "celebrity"
    /\ ls["user"] = JsonNull

\* isPublicUser() raises, likewise
isPublicUserRaises(ls) ==
    /\ getAuthData(ls).ok
    /\ getAuthData(ls).userRole = "public"
    /\ ls["user"] = JsonNull

\* getCurrentUser(): authData?.user || null  (NoUser stands for null)
getCurrentUser(ls) == getAuthData(ls).user

\* variant: the user record is stored without JSON.stringify
setAuthData_NoStringify(ls, token, user, userRole) ==
    [ls EXCEPT !["token"] = Raw(token),
               !["user"] = Raw("[object Object]"),
               !["userRole"] = Raw(userRole)]

\* setAuthData(token, user, userRole)
setAuthData(ls, token, user, userRole) ==
    [ls EXCEPT !["token"] = Raw(token),
               !["user"] = StringifyUser(user),
               !["userRole"] = Raw(userRole)]

\* variant: a clearAuthData() that empties the whole storage
clearAuthData_All(ls) == [k \in Keys |-> Absent]

\* clearAuthData(): removeItem for token, user and userRole
clearAuthData(ls) ==
    [ls EXCEPT !["token"] = Absent, !["user"] = Absent, !["userRole"] = Absent]

(***************************************************************************)
(* Inputs explored.                                                        *)
(***************************************************************************)
\* arguments of addNotification: without a read flag, unread, and read
SampleNotifications ==
    { [id |-> 10, celebrityName |-> "Ada", content |-> "Hello", timestamp |-> 5],
      [id |-> 11, celebrityName |-> "Ada", content |-> "Again", timestamp |-> 5, read |-> FALSE],
      [id |-> 12, celebrityName |-> "Kim", content |-> "Old", timestamp |-> 4, read |-> TRUE] }

\* payloads of the newNotification event: data.author?.name and
\* data.post?.content, Undefined when the author/post or the property is absent
Payloads ==
    { [authorName |-> "Zoe", postContent |-> "Hi"],
      [authorName |-> Undefined, postContent |-> Undefined],
      [authorName |-> "", postContent |-> "Hi"] }

\* the payload of the specification scenario
ConnPayloads == { [authorName |-> "Zoe", postContent |-> "Hi"] }

ConnFractions == {0}

Clock == {6}          \* Date.now() at receipt, in milliseconds
Fractions == {0, 1}     \* Math.random(), in half milliseconds

\* what localStorage may hold under starconnect_notifications when the page
\* is opened: nothing, the empty string, text that is not JSON, or a list
\* persisted by an earlier page session
StoredAtStart ==
    { Absent, Raw(""), Raw("{oops"),
      StringifyList(<< [id |-> 11, celebrityName |-> "Ada", content |-> "Again",
                        timestamp |-> 5, read |-> FALSE] >>) }

\* what localStorage may hold under the three session keys when a page reads
\* them: nothing, the empty string, text that is not JSON, the JSON text
\* null, or what setAuthData wrote
TokenTexts == {Absent, Raw(""), Raw("tokC")}
UserTexts == {Absent, Raw(""), Raw("{oops"), JsonNull,
              StringifyUser(CelebUser), StringifyUser(PublicUser)}
RoleTexts == {Absent, Raw(""), Raw("celebrity"), Raw("public")}

\* arguments of setAuthData
Tokens == {"tokC", "tokP"}
Users == {CelebUser, PublicUser}
Roles == {"celebrity", "public"}

Events == {"newNotification", "notificationCount", "newPost"}

\* the event names pages subscribe to: the store and the feed
SubscribedEvents == {"newNotification", "newPost"}

\* the transport events connect() relays to this.emit
RelayedEvents == {"notificationCount", "newNotification"}
StoreCallback == "handleNewNotification"

(***************************************************************************)
(* State.                                                                  *)
(***************************************************************************)
VARIABLES
    localStorage,     \* key -> text
    \* SocketManager
    socket,           \* this.socket: the held transport, or NoSocket
    isConnected,      \* this.isConnected
    listeners,        \* this.listeners: Map event -> array of callbacks
    \* the transports opened by io(...)
    status,           \* socket id -> unopened/connecting/connected/disconnected/closed
    sockToken,        \* socket id -> authData.token captured by its handlers
    authSent,         \* socket id -> tokens sent over it in authenticate messages
    derefError,       \* a connect handler ran this.socket.emit with this.socket = null
    \* NotificationProvider
    mounted,          \* a provider instance is mounted
    notifications,    \* its notifications state
    unreadCount,      \* its unreadCount state
    effectPending,    \* the [notifications] effect has not yet run for this list
    mountPending,     \* the mount-time effects have not yet run
    subscribed,       \* the subscription effect returned its cleanup
    \* history
    lastOp,           \* the last operation that acted on the store
    lastData,         \* payload of the last inbound event handled by the store
    mountRole,        \* user.type seen by the subscription effect ("none": no user)
    before,           \* the list before the last operation that changed it
    base,             \* the list before the current run of addNotification calls
    addLog,           \* arguments of the addNotification calls of the current run
    persisted,        \* the list last written by the persist effect
    hasPersisted,     \* the persist effect has written at least once
    obs,              \* the last observed call, handler run or dispatch and its outcome
    \* FeedPage
    feedUp,           \* the page's mount effect has run and not been cleaned up
    posts,            \* posts state: the ids of the posts in the list, in order
    loadedPostIds,    \* loadedPostIds state
    page,             \* page state
    hasMore,          \* hasMore state
    loadingMore,      \* loadingMore state
    closure,          \* the state values captured by the memoized loadMorePosts
    observing,        \* the scroll observer is attached to the sentinel element
    dirty,            \* state updates are queued that no render has applied yet
    requests,         \* the page fetches in flight
    requested,        \* the page numbers requested by loadMorePosts since the last refresh
    \* post interactions
    liked,            \* the posts whose likes hold the viewer's id
    comments,         \* post id -> the ids of its comments, in order
    submittingComment,\* submittingComment state
    commentReq,       \* the comment request in flight, or NoRequest
    likeReq,          \* the like requests in flight
    \* two tabs of one browser, each with its own provider instance
    tabs,             \* tab -> the provider state of that tab
    lastWriter        \* the tab whose persist effect wrote last, or NoTab

mgrVars == <<socket, isConnected, listeners>>
netVars == <<status, sockToken, authSent, derefError>>
storeVars == <<mounted, notifications, unreadCount, effectPending, mountPending, subscribed>>
histVars == <<lastOp, lastData, mountRole, before, base, addLog, persisted, hasPersisted>>
feedVars == <<feedUp, posts, loadedPostIds, page, hasMore, loadingMore, closure,
              observing, dirty, requests, requested>>
actVars == <<liked, comments, submittingComment, commentReq, likeReq>>
tabVars == <<tabs, lastWriter>>
pageVars == <<feedVars, actVars, tabVars>>
vars == <<localStorage, mgrVars, netVars, storeVars, histVars, obs, pageVars>>

(***************************************************************************)
(* Connection Manager (SocketManager).                                     *)
(***************************************************************************)
\* the transports io(...) has created and socket.disconnect() has not torn down
Live == {s \in SocketIds : status[s] \notin {"unopened", "closed"}}

Opened == {s \in SocketIds : status[s] # "unopened"}

\* this.socket = io(url, ...): a new transport, connecting (autoConnect);
\* its handlers capture the token read by this connect() call
OpenSocket(s, token) ==
    /\ socket' = s
    /\ status' = [status EXCEPT ![s] = "connecting"]
    /\ sockToken' = [sockToken EXCEPT ![s] = token]

\* variant: a connect() that opens a transport whether or not a token is there
connect_NoTokenCheck ==
    IF socket # NoSocket /\ isConnected
    THEN UNCHANGED <<socket, status, sockToken>>
    ELSE \E s \in SocketIds :
            /\ s = Cardinality(Opened) + 1
            /\ OpenSocket(s, getAuthData(localStorage).token)

\* connect(): returns the held transport when this.socket && this.isConnected;
\* returns null without a token; otherwise opens a new transport
connect ==
    IF socket # NoSocket /\ isConnected
    THEN UNCHANGED <<socket, status, sockToken>>
    ELSE IF getAuthData(localStorage).token = ""
    THEN UNCHANGED <<socket, status, sockToken>>
    ELSE \E s \in SocketIds :
            /\ s = Cardinality(Opened) + 1
            /\ OpenSocket(s, getAuthData(localStorage).token)

\* the value connect() returns; held is this.socket after the call
connectReturns(held) ==
    IF socket # NoSocket /\ isConnected THEN socket
    ELSE IF getAuthData(localStorage).token = "" THEN NoSocket
    ELSE held

\* variant: a disconnect() that drops the transport and keeps the flag
disconnect_KeepFlag ==
    IF socket # NoSocket
    THEN /\ status' = [status EXCEPT ![socket] = "closed"]
         /\ socket' = NoSocket
         /\ UNCHANGED isConnected
    ELSE UNCHANGED <<status, socket, isConnected>>

\* disconnect(): if (this.socket) { this.socket.disconnect(); this.socket = null;
\* this.isConnected = false }
disconnect ==
    IF socket # NoSocket
    THEN /\ status' = [status EXCEPT ![socket] = "closed"]
         /\ socket' = NoSocket
         /\ isConnected' = FALSE
    ELSE UNCHANGED <<status, socket, isConnected>>

\* this.socket.emit('authenticate', authData.token) in the 'connect' handler of
\* transport s: the messages it sends, each over the transport held at that
\* moment and carrying the token the handler captured; with this.socket = null
\* the call raises a TypeError and nothing is sent
Authenticate(s) ==
    IF socket = NoSocket
    THEN <<>>
    ELSE << [via |-> socket, token |-> sockToken[s]] >>

\* on(event, callback)
on(L, event, callback) ==
    IF event \in DOMAIN L
    THEN [L EXCEPT ![event] = Append(@, callback)]
    ELSE [e \in DOMAIN L \cup {event} |-> IF e = event THEN <<callback>> ELSE L[e]]

\* callbacks.indexOf(callback): 0 stands for -1
IndexOf(callbacks, callback) ==
    IF \E i \in 1..Len(callbacks) : callbacks[i] = callback
    THEN CHOOSE i \in 1..Len(callbacks) :
            /\ callbacks[i] = callback
            /\ \A j \in 1..(i - 1) : callbacks[j] # callback
    ELSE 0

\* variant: callbacks.splice(index, 2)
Splice_Two(callbacks, index) ==
    IF index = Len(callbacks)
    THEN SubSeq(callbacks, 1, index - 1)
    ELSE [i \in 1..(Len(callbacks) - 2) |->
            IF i < index THEN callbacks[i] ELSE callbacks[i + 2]]

\* callbacks.splice(index, 1)
Splice(callbacks, index) ==
    [i \in 1..(Len(callbacks) - 1) |->
        IF i < index THEN callbacks[i] ELSE callbacks[i + 1]]

\* variant: splice(index, 1) without the index > -1 test; splice(-1, 1)
\* removes the last element
off_SpliceUnchecked(L, event, callback) ==
    IF event \in DOMAIN L /\ L[event] # <<>>
    THEN [L EXCEPT ![event] =
            Splice(@, IF IndexOf(@, callback) > 0 THEN IndexOf(@, callback) ELSE Len(@))]
    ELSE L

\* off(event, callback)
off(L, event, callback) ==
    IF event \in DOMAIN L /\ IndexOf(L[event], callback) > 0
    THEN [L EXCEPT ![event] = Splice(@, IndexOf(@, callback))]
    ELSE L

\* the callbacks emit(event, data) invokes, in order
Registered(L, event) == IF event \in DOMAIN L THEN L[event] ELSE <<>>

\* this.listeners.get(event): undefined (present = FALSE) for an unknown event
MapGet(L, event) ==
    IF event \in DOMAIN L
    THEN [present |-> TRUE, value |-> L[event]]
    ELSE [present |-> FALSE, value |-> <<>>]

\* off(event, callback) raises when it calls indexOf on undefined; the call is
\* made only inside `if (this.listeners.has(event))`
offRaises(L, event, callback) == event \in DOMAIN L /\ ~MapGet(L, event).present

\* number of registrations the registry holds
RegCount(L) ==
    Len(Registered(L, "newNotification")) + Len(Registered(L, "notificationCount"))
        + Len(Registered(L, "newPost"))

\* Subscribers other than the store's handler: one that returns and one that
\* throws when invoked
Callbacks == {"cbA", "cbThrow"}
Throws(callback) == callback = "cbThrow"

NothingInvoked == [invoked |-> <<>>, caught |-> 0, escaped |-> FALSE]

\* variant: the callbacks are invoked without try/catch
RECURSIVE forEach_NoCatch(_, _, _)
forEach_NoCatch(callbacks, event, acc) ==
    IF callbacks = <<>>
    THEN acc
    ELSE LET ran == [acc EXCEPT !.invoked = Append(@, <<event, Head(callbacks)>>)]
         IN  IF Throws(Head(callbacks))
             THEN [ran EXCEPT !.escaped = TRUE]
             ELSE forEach_NoCatch(Tail(callbacks), event, ran)

\* callbacks.forEach(callback => { try { callback(data) } catch (error)
\* { console.error(...) } }): the invocations made, in order, each tagged with
\* the event name it was registered under; the exceptions caught; whether one
\* left the loop
RECURSIVE forEach(_, _, _)
forEach(callbacks, event, acc) ==
    IF callbacks = <<>>
    THEN acc
    ELSE LET ran == [acc EXCEPT !.invoked = Append(@, <<event, Head(callbacks)>>)]
         IN  IF Throws(Head(callbacks))
             THEN forEach(Tail(callbacks), event, [ran EXCEPT !.caught = @ + 1])
             ELSE forEach(Tail(callbacks), event, ran)

\* variant: every registered callback is invoked, whatever its event name
emit_AllEvents(L, event) ==
    forEach(Registered(L, "newPost"), "newPost",
        forEach(Registered(L, "notificationCount"), "notificationCount",
            forEach(Registered(L, "newNotification"), "newNotification",
                NothingInvoked)))

\* emit(event, data)
emit(L, event) ==
    IF event \in DOMAIN L
    THEN forEach(L[event], event, NothingInvoked)
    ELSE NothingInvoked

(***************************************************************************)
(* Notification Store (NotificationProvider).                              *)
(***************************************************************************)
\* variant: x ?? d, the default only for an absent property
OrDefault_Nullish(x, d) == IF x = Undefined THEN d ELSE x

\* x || d for a string or an absent property
OrDefault(x, d) == IF x = Undefined \/ x = "" THEN d ELSE x

\* the useState initializer: saved ? JSON.parse(saved) : []
InitialThrows(ls) == Truthy(ls[NKey]) /\ ~Parseable(ls[NKey])

InitialNotifications(ls) ==
    IF Truthy(ls[NKey]) THEN ParseList(ls[NKey]) ELSE <<>>

\* variant: appends (prev => [...prev, n])
addNotification_Append(prev, n) == prev \o <<n>>

\* setNotifications(prev => [n, ...prev])
addNotification(prev, n) == <<n>> \o prev

\* variant: flips only a flag that is present (n.read === false ? ... : n)
MarkRead_OnlyFlagged(n) == IF HasRead(n) THEN [n EXCEPT !.read = TRUE] ELSE n

\* { ...n, read: true }
MarkRead(n) ==
    [id |-> n.id, celebrityName |-> n.celebrityName, content |-> n.content,
     timestamp |-> n.timestamp, read |-> TRUE]

\* setNotifications(prev => prev.map(n => ({ ...n, read: true })))
markAllAsRead(prev) == [i \in 1..Len(prev) |-> MarkRead(prev[i])]

\* variant: removes only the unread entries (prev => prev.filter(n => n.read))
clearNotifications_KeepRead(prev) == SelectSeq(prev, IsRead)

\* setNotifications([])
clearNotifications(prev) == <<>>

\* the record handleNewNotification builds from the payload
NewNotification(data, now, rnd) ==
    [id |-> 2 * now + rnd,
     celebrityName |-> OrDefault(data.authorName, "Celebrity"),
     content |-> OrDefault(data.postContent, ""),
     timestamp |-> now,
     read |-> FALSE]

\* handleNewNotification(data): setNotifications(prev => [n, ...prev])
handleNewNotification(prev, data, now, rnd) ==
    <<NewNotification(data, now, rnd)>> \o prev

\* emit(event, data) as the store sees it: every registration of its handler
\* is invoked once, in order
RECURSIVE Deliver(_, _, _, _, _)
Deliver(callbacks, prev, data, now, rnd) ==
    IF callbacks = <<>> THEN prev
    ELSE Deliver(Tail(callbacks),
                 IF Head(callbacks) = StoreCallback
                 THEN handleNewNotification(prev, data, now, rnd) ELSE prev,
                 data, now, rnd)

\* user.type as the subscription effect reads it
RoleOf(user) == IF user = NoUser THEN "none" ELSE user.type

\* variant: the effect checks only that a user is logged in
Subscribes_AnyUser(ls) == getCurrentUser(ls) # NoUser

\* the subscription effect goes past `if (!user || user.type !== 'public') return`
Subscribes(ls) == getCurrentUser(ls) # NoUser /\ getCurrentUser(ls).type = "public"

(***************************************************************************)
(* FeedPage: values.                                                       *)
(***************************************************************************)
MaxFeed == 2         \* longest post list explored
MaxPage == 2         \* largest page number explored
MaxInflight == 2     \* most page fetches in flight explored
MaxPagePosts == 2    \* most posts in one page of a response explored
MaxComments == 2     \* most comments on one post explored

PostIds == {1, 2}

ToSet(q) == {q[i] : i \in 1..Len(q)}

\* data.posts of a response: a page of distinct posts
PagesOfLen(n) == {q \in [1..n -> PostIds] : \A i, j \in 1..n : q[i] = q[j] => i = j}

Pages == UNION {PagesOfLen(n) : n \in 0..MaxPagePosts}

\* the handler registered by the feed page's mount effect
FeedCallback == "handleNewPost"

\* Date.now() at a comment submission, and the ids the backend gives comments
CommentClock == {6}

ServerCommentIds == {1}

NoRequest == [post |-> 0, id |-> 0, before |-> <<>>]

\* the events the transport's handlers pass on to this.emit
Relays(event) == event \in RelayedEvents

\* the useState initial values of a FeedPage instance
FeedConstructed ==
    /\ feedUp = FALSE
    /\ posts = <<>>
    /\ loadedPostIds = {}
    /\ page = 1
    /\ hasMore = TRUE
    /\ loadingMore = FALSE
    /\ closure = [page |-> 1, hasMore |-> TRUE, loadingMore |-> FALSE, ids |-> {}]
    /\ observing = FALSE
    /\ dirty = FALSE
    /\ requests = EmptyBag
    /\ requested = {}
    /\ liked = {}
    /\ comments = [p \in PostIds |-> <<>>]
    /\ submittingComment = FALSE
    /\ commentReq = NoRequest
    /\ likeReq = {}

(***************************************************************************)
(* Two tabs: values.                                                       *)
(***************************************************************************)
Tabs == {1, 2}

NoTab == 0

TabClosed == [mounted |-> FALSE, mountPending |-> FALSE, subscribed |-> FALSE,
              notifications |-> <<>>, effectPending |-> FALSE]

\* variant: a write that keeps the stored entries the list does not hold
persist_Merge(ls, list) ==
    LET stored == IF Truthy(ls[NKey]) /\ Parseable(ls[NKey])
                  THEN ParseList(ls[NKey]) ELSE <<>>
        held == {list[i].id : i \in 1..Len(list)}
    IN [ls EXCEPT ![NKey] =
           StringifyList(list \o SelectSeq(stored, LAMBDA e : e.id \notin held))]

\* localStorage.setItem('starconnect_notifications', JSON.stringify(notifications))
persist(ls, list) == [ls EXCEPT ![NKey] = StringifyList(list)]

TabsConstructed ==
    /\ tabs = [t \in Tabs |-> TabClosed]
    /\ lastWriter = NoTab

(***************************************************************************)
(* Initial state: the page has just been loaded.                           *)
(***************************************************************************)
EmptyStorage == [k \in Keys |-> Absent]

SessionsAtStart ==
    {EmptyStorage} \cup
    {setAuthData(EmptyStorage, a.token, a.user, a.user.type) : a \in LoginAnswers}

\* the module singletons as constructed, no provider mounted
Constructed ==
    /\ socket = NoSocket
    /\ isConnected = FALSE
    /\ listeners = <<>>
    /\ status = [s \in SocketIds |-> "unopened"]
    /\ sockToken = [s \in SocketIds |-> ""]
    /\ authSent = [s \in SocketIds |-> {}]
    /\ derefError = FALSE
    /\ mounted = FALSE
    /\ notifications = <<>>
    /\ unreadCount = 0
    /\ effectPending = FALSE
    /\ mountPending = FALSE
    /\ subscribed = FALSE
    /\ lastOp = "none"
    /\ lastData = [authorName |-> Undefined, postContent |-> Undefined]
    /\ mountRole = "none"
    /\ before = <<>>
    /\ base = <<>>
    /\ addLog = <<>>
    /\ persisted = <<>>
    /\ hasPersisted = FALSE
    /\ obs = [op |-> "none"]
    /\ FeedConstructed
    /\ TabsConstructed

Init ==
    /\ localStorage \in {[ls EXCEPT ![NKey] = txt] :
                            ls \in SessionsAtStart, txt \in StoredAtStart}
    /\ Constructed

\* a browser with or without a session and no stored notification list
InitFeed ==
    /\ localStorage \in SessionsAtStart
    /\ Constructed

\* any content of the three session keys
InitSession ==
    /\ localStorage \in {[EmptyStorage EXCEPT !["token"] = t, !["user"] = u,
                                               !["userRole"] = r] :
                            t \in TokenTexts, u \in UserTexts, r \in RoleTexts}
    /\ Constructed

(***************************************************************************)
(* Session: login page and logout buttons.                                 *)
(***************************************************************************)
\* handleLogin: setAuthData(data.token, data.user, data.user.type)
Login(a) ==
    /\ localStorage' = setAuthData(localStorage, a.token, a.user, a.user.type)
    /\ UNCHANGED <<pageVars, obs, mgrVars, netVars, storeVars, histVars>>

\* handleLogout: clearAuthData()
Logout ==
    /\ getAuthData(localStorage).ok
    /\ localStorage' = clearAuthData(localStorage)
    /\ UNCHANGED <<pageVars, obs, mgrVars, netVars, storeVars, histVars>>

\* setAuthData(token, user, userRole), observed
SetAuthData(token, user, userRole) ==
    /\ localStorage' = setAuthData(localStorage, token, user, userRole)
    /\ obs' = [op |-> "setAuthData", token |-> token, user |-> user,
               userRole |-> userRole]
    /\ UNCHANGED <<pageVars, mgrVars, netVars, storeVars, histVars>>

\* clearAuthData(), observed
ClearAuthData ==
    /\ localStorage' = clearAuthData(localStorage)
    /\ obs' = [op |-> "clearAuthData"]
    /\ UNCHANGED <<pageVars, mgrVars, netVars, storeVars, histVars>>

\* a page reads the session: getAuthData(), isAuthenticated(), isCelebrity()
\* and isPublicUser(), observed
ReadSession ==
    /\ obs' = [op |-> "read",
               authData |-> getAuthData(localStorage),
               raised |-> getAuthDataRaises(localStorage),
               authenticated |-> isAuthenticated(localStorage),
               celebrity |-> isCelebrity(localStorage),
               publicUser |-> isPublicUser(localStorage),
               currentUser |-> getCurrentUser(localStorage),
               celebrityRaised |-> isCelebrityRaises(localStorage),
               publicUserRaised |-> isPublicUserRaises(localStorage)]
    /\ UNCHANGED <<pageVars, localStorage, mgrVars, netVars, storeVars, histVars>>

(***************************************************************************)
(* Connection Manager operations and transport signals.                    *)
(***************************************************************************)
\* socketManager.connect() called by a page (FeedPage, ProfilePage)
Connect ==
    /\ connect
    /\ UNCHANGED <<pageVars, obs, localStorage, isConnected, listeners, authSent, derefError,
                   storeVars, histVars>>

\* socketManager.disconnect()
Disconnect ==
    /\ disconnect
    /\ UNCHANGED <<pageVars, obs, localStorage, listeners, sockToken, authSent, derefError,
                   storeVars, histVars>>

\* the 'connect' handler of transport s: this.isConnected = true, then
\* this.socket.emit('authenticate', authData.token)
onConnect(s) ==
    /\ status' = [status EXCEPT ![s] = "connected"]
    /\ isConnected' = TRUE
    /\ derefError' = (derefError \/ Authenticate(s) = <<>>)
    /\ authSent' = [x \in SocketIds |->
                        authSent[x] \cup {Authenticate(s)[i].token :
                            i \in {j \in 1..Len(Authenticate(s)) :
                                        Authenticate(s)[j].via = x}}]

\* the 'disconnect' handler of transport s: this.isConnected = false
onDisconnect(s) ==
    /\ status' = [status EXCEPT ![s] = "disconnected"]
    /\ isConnected' = FALSE

\* the 'connect_error' handler of transport s: this.isConnected = false
onConnectError(s) ==
    /\ isConnected' = FALSE
    /\ UNCHANGED status

\* transport s signals 'connect': the handler sets the flag and sends
\* authenticate over this.socket with the token it captured
SigConnect(s) ==
    /\ status[s] \in {"connecting", "disconnected"}
    /\ onConnect(s)
    /\ UNCHANGED <<pageVars, obs, localStorage, socket, listeners, sockToken, storeVars, histVars>>

\* transport s signals 'disconnect'
SigDisconnect(s) ==
    /\ status[s] = "connected"
    /\ onDisconnect(s)
    /\ UNCHANGED <<pageVars, obs, localStorage, socket, listeners, sockToken, authSent, derefError,
                   storeVars, histVars>>

\* transport s signals 'connect_error'
SigConnectError(s) ==
    /\ status[s] \in {"connecting", "disconnected"}
    /\ onConnectError(s)
    /\ UNCHANGED <<pageVars, obs, localStorage, socket, listeners, sockToken, authSent,
                   derefError, storeVars, histVars>>

\* socketManager.connect(), observed: what the call was given, what it
\* returned and whether it changed the manager or a transport
CallConnect ==
    /\ connect
    /\ obs' = [op |-> "connect",
               hadToken |-> getAuthData(localStorage).token # "",
               wasUp |-> (socket # NoSocket /\ isConnected),
               held |-> socket,
               ret |-> connectReturns(socket'),
               retForeign |-> /\ connectReturns(socket') # NoSocket
                              /\ authSent[connectReturns(socket')] \
                                    {getAuthData(localStorage).token} # {},
               changed |-> (<<socket', status', sockToken'>> # <<socket, status, sockToken>>)]
    /\ UNCHANGED <<pageVars, localStorage, isConnected, listeners, authSent, derefError,
                   storeVars, histVars>>

\* socketManager.disconnect(), observed
CallDisconnect ==
    /\ disconnect
    /\ UNCHANGED <<pageVars, localStorage, listeners, sockToken, authSent, derefError,
                   storeVars, histVars>>
    /\ obs' = [op |-> "disconnect",
               held |-> socket,
               after |-> socket',
               flag |-> isConnected',
               closed |-> (socket # NoSocket /\ status'[socket] = "closed"),
               changed |-> (<<socket', isConnected', status'>> # <<socket, isConnected, status>>),
               registry |-> listeners,
               registryAfter |-> listeners']

\* transport s signals 'connect', observed: the flag the handler leaves and the
\* authenticate messages it sends
HandleConnect(s) ==
    /\ status[s] \in {"connecting", "disconnected"}
    /\ onConnect(s)
    /\ obs' = [op |-> "connect_signal", from |-> s, flag |-> isConnected',
               token |-> sockToken[s], sent |-> Authenticate(s),
               current |-> (sockToken[s] = getAuthData(localStorage).token)]
    /\ UNCHANGED <<pageVars, localStorage, socket, listeners, sockToken, storeVars, histVars>>

\* transport s signals 'disconnect', observed
HandleDisconnect(s) ==
    /\ status[s] = "connected"
    /\ onDisconnect(s)
    /\ obs' = [op |-> "disconnect_signal", from |-> s, flag |-> isConnected']
    /\ UNCHANGED <<pageVars, localStorage, socket, listeners, sockToken, authSent, derefError,
                   storeVars, histVars>>

\* transport s signals 'connect_error', observed
HandleConnectError(s) ==
    /\ status[s] \in {"connecting", "disconnected"}
    /\ onConnectError(s)
    /\ obs' = [op |-> "connect_error_signal", from |-> s, flag |-> isConnected']
    /\ UNCHANGED <<pageVars, localStorage, socket, listeners, sockToken, authSent,
                   derefError, storeVars, histVars>>

\* socketManager.on(event, callback), observed
On(event, callback) ==
    /\ RegCount(listeners) < MaxRegs
    /\ listeners' = on(listeners, event, callback)
    /\ obs' = [op |-> "on", event |-> event, callback |-> callback,
               registry |-> listeners, registryAfter |-> listeners']
    /\ UNCHANGED <<pageVars, localStorage, socket, isConnected, netVars, storeVars, histVars>>

\* socketManager.off(event, callback), observed
Off(event, callback) ==
    /\ listeners' = off(listeners, event, callback)
    /\ obs' = [op |-> "off", event |-> event, callback |-> callback,
               raised |-> offRaises(listeners, event, callback),
               registry |-> listeners, registryAfter |-> listeners']
    /\ UNCHANGED <<pageVars, localStorage, socket, isConnected, netVars, storeVars, histVars>>

\* transport s delivers a relayed event: its handler runs this.emit(event, data);
\* observed: the invocations made and whether an exception left emit
Dispatch(s, event) ==
    /\ status[s] = "connected"
    /\ obs' = [op |-> "emit", event |-> event, registry |-> listeners,
               invoked |-> emit(listeners, event).invoked,
               caught |-> emit(listeners, event).caught,
               escaped |-> emit(listeners, event).escaped]
    /\ UNCHANGED <<pageVars, localStorage, mgrVars, netVars, storeVars, histVars>>

\* transport s delivers 'newNotification': this.emit('newNotification', data)
\* invokes the registered callbacks; the store's update is applied at its
\* next render
SigNewNotification(s, data, now, rnd) ==
    /\ status[s] = "connected"
    /\ StoreCallback \in {Registered(listeners, "newNotification")[i] :
                            i \in 1..Len(Registered(listeners, "newNotification"))}
    /\ mounted /\ ~effectPending
    /\ Len(notifications) < MaxLen
    /\ notifications' = Deliver(Registered(listeners, "newNotification"),
                                notifications, data, now, rnd)
    /\ effectPending' = TRUE
    /\ lastOp' = "inbound"
    /\ before' = notifications
    /\ lastData' = data
    /\ base' = notifications'
    /\ addLog' = <<>>
    /\ UNCHANGED <<pageVars, obs, localStorage, mgrVars, netVars, mounted, unreadCount,
                   mountPending, subscribed, mountRole, persisted, hasPersisted>>

(***************************************************************************)
(* Notification Store life cycle and operations.                           *)
(***************************************************************************)
\* first render of a provider: the useState initializers run.  JSON.parse
\* throws on text that is not JSON and the provider does not mount.
Mount ==
    /\ ~mounted
    /\ IF InitialThrows(localStorage)
       THEN /\ lastOp' = "mountFailed"
            /\ UNCHANGED <<storeVars, mountRole, before, base, addLog>>
       ELSE /\ mounted' = TRUE
            /\ notifications' = InitialNotifications(localStorage)
            /\ unreadCount' = 0
            /\ effectPending' = TRUE
            /\ mountPending' = TRUE
            /\ subscribed' = FALSE
            /\ lastOp' = "mount"
            /\ mountRole' = "none"
            /\ before' = <<>>
            /\ base' = notifications'
            /\ addLog' = <<>>
    /\ UNCHANGED <<pageVars, obs, localStorage, mgrVars, netVars, lastData, persisted, hasPersisted>>

\* variant: the effect persists only a non-empty list
ListEffectBody_SkipEmpty ==
    /\ unreadCount' = UnreadOf(notifications)
    /\ localStorage' = IF notifications = <<>> THEN localStorage
                       ELSE [localStorage EXCEPT ![NKey] = StringifyList(notifications)]
    /\ persisted' = IF notifications = <<>> THEN persisted ELSE notifications
    /\ hasPersisted' = (hasPersisted \/ notifications # <<>>)
    /\ effectPending' = FALSE

\* the [notifications] effect: setUnreadCount(...) and localStorage.setItem(...)
ListEffectBody ==
    /\ unreadCount' = UnreadOf(notifications)
    /\ localStorage' = [localStorage EXCEPT ![NKey] = StringifyList(notifications)]
    /\ persisted' = notifications
    /\ hasPersisted' = TRUE
    /\ effectPending' = FALSE

\* the effect flush after the first commit: the [notifications] effect, then
\* the subscription effect
MountEffects ==
    /\ mounted /\ mountPending
    /\ ListEffectBody
    /\ mountPending' = FALSE
    /\ mountRole' = RoleOf(getCurrentUser(localStorage))
    /\ IF Subscribes(localStorage)
       THEN /\ connect
            /\ listeners' = on(listeners, "newNotification", StoreCallback)
            /\ subscribed' = TRUE
       ELSE UNCHANGED <<socket, status, sockToken, listeners, subscribed>>
    /\ UNCHANGED <<pageVars, obs, isConnected, authSent, derefError, mounted, notifications,
                   lastOp, lastData, before, base, addLog>>

\* the effect flush after a later render that changed the list
ListEffect ==
    /\ mounted /\ effectPending /\ ~mountPending
    /\ ListEffectBody
    /\ UNCHANGED <<pageVars, obs, mgrVars, netVars, mounted, notifications, mountPending,
                   subscribed, lastOp, lastData, mountRole, before, base, addLog>>

\* variant: an unmount whose cleanup leaves the handler registered
Unmount_NoCleanup ==
    /\ mounted /\ ~effectPending
    /\ mounted' = FALSE
    /\ notifications' = <<>>
    /\ unreadCount' = 0
    /\ subscribed' = FALSE
    /\ lastOp' = "unmount"
    /\ mountRole' = "none"
    /\ before' = <<>>
    /\ base' = <<>>
    /\ addLog' = <<>>
    /\ UNCHANGED <<pageVars, obs, localStorage, mgrVars, netVars, effectPending,
                   mountPending, lastData, persisted, hasPersisted>>

\* the provider unmounts: the subscription effect's cleanup runs
Unmount ==
    /\ mounted /\ ~effectPending
    /\ listeners' = IF subscribed
                    THEN off(listeners, "newNotification", StoreCallback)
                    ELSE listeners
    /\ mounted' = FALSE
    /\ notifications' = <<>>
    /\ unreadCount' = 0
    /\ subscribed' = FALSE
    /\ lastOp' = "unmount"
    /\ mountRole' = "none"
    /\ before' = <<>>
    /\ base' = <<>>
    /\ addLog' = <<>>
    /\ UNCHANGED <<pageVars, obs, localStorage, socket, isConnected, netVars, effectPending,
                   mountPending, lastData, persisted, hasPersisted>>

\* addNotification(n)
AddNotification(n) ==
    /\ mounted /\ ~effectPending
    /\ Len(notifications) < MaxLen
    /\ notifications' = addNotification(notifications, n)
    /\ effectPending' = TRUE
    /\ lastOp' = "add"
    /\ before' = notifications
    /\ addLog' = Append(addLog, n)
    /\ UNCHANGED <<pageVars, obs, localStorage, mgrVars, netVars, mounted, unreadCount, mountPending,
                   subscribed, lastData, mountRole, base, persisted, hasPersisted>>

\* markAllAsRead()
MarkAllAsRead ==
    /\ mounted /\ ~effectPending
    /\ notifications' = markAllAsRead(notifications)
    /\ effectPending' = TRUE
    /\ lastOp' = "markAllAsRead"
    /\ before' = notifications
    /\ base' = notifications'
    /\ addLog' = <<>>
    /\ UNCHANGED <<pageVars, obs, localStorage, mgrVars, netVars, mounted, unreadCount, mountPending,
                   subscribed, lastData, mountRole, persisted, hasPersisted>>

\* clearNotifications()
ClearNotifications ==
    /\ mounted /\ ~effectPending
    /\ notifications' = clearNotifications(notifications)
    /\ effectPending' = TRUE
    /\ lastOp' = "clear"
    /\ before' = notifications
    /\ base' = notifications'
    /\ addLog' = <<>>
    /\ UNCHANGED <<pageVars, obs, localStorage, mgrVars, netVars, mounted, unreadCount, mountPending,
                   subscribed, lastData, mountRole, persisted, hasPersisted>>

(***************************************************************************)
(* Specifications.                                                         *)
(***************************************************************************)
\* The store with its storage and the transport that feeds it: one session
\* for the whole page life, every store operation, every payload.
StoreNext ==
    \/ Mount
    \/ MountEffects
    \/ ListEffect
    \/ Unmount
    \/ \E n \in SampleNotifications : AddNotification(n)
    \/ MarkAllAsRead
    \/ ClearNotifications
    \/ \E s \in SocketIds : SigConnect(s)
    \/ \E s \in SocketIds, data \in Payloads, now \in Clock, rnd \in Fractions :
          SigNewNotification(s, data, now, rnd)

SpecStore == Init /\ [][StoreNext]_vars

\* The connection manager with the sessions, the transports and the store's
\* subscription: every manager operation and transport signal, login and
\* logout, mount and unmount; inbound events carry one payload.
ConnNext ==
    \/ \E a \in LoginAnswers : Login(a)
    \/ Logout
    \/ Connect
    \/ Disconnect
    \/ \E s \in SocketIds : SigConnect(s)
    \/ \E s \in SocketIds : SigDisconnect(s)
    \/ \E s \in SocketIds : SigConnectError(s)
    \/ \E s \in SocketIds, data \in ConnPayloads, now \in Clock, rnd \in ConnFractions :
          SigNewNotification(s, data, now, rnd)
    \/ Mount
    \/ MountEffects
    \/ ListEffect
    \/ Unmount

SpecConn == Init /\ [][ConnNext]_vars

\* The connection manager alone, observed call by call: sessions come and go,
\* connect() and disconnect() are called in any order, every transport
\* signals, and a page subscribes.
MgrNext ==
    \/ \E a \in LoginAnswers : Login(a)
    \/ Logout
    \/ CallConnect
    \/ CallDisconnect
    \/ \E s \in SocketIds : HandleConnect(s)
    \/ \E s \in SocketIds : HandleDisconnect(s)
    \/ \E s \in SocketIds : HandleConnectError(s)
    \/ On("newPost", "cbA")

SpecMgr == Init /\ [][MgrNext]_vars

\* The listener registry: subscribers register and unregister under any event
\* name, and connected transports deliver the relayed events.
RegNext ==
    \/ Connect
    \/ \E s \in SocketIds : SigConnect(s)
    \/ \E event \in SubscribedEvents, callback \in Callbacks : On(event, callback)
    \/ \E event \in Events, callback \in Callbacks : Off(event, callback)
    \/ \E s \in SocketIds, event \in RelayedEvents : Dispatch(s, event)

SpecReg == Init /\ [][RegNext]_vars

\* The session accessor over any content of its three keys: sessions are
\* written, cleared and read.
SessionNext ==
    \/ \E token \in Tokens, user \in Users, userRole \in Roles :
          SetAuthData(token, user, userRole)
    \/ ClearAuthData
    \/ ReadSession

SpecSession == InitSession /\ [][SessionNext]_vars

\* The store across sessions: login and logout, mount and unmount, inbound
\* events, markAllAsRead and clearNotifications.
LifeNext ==
    \/ \E a \in LoginAnswers : Login(a)
    \/ Logout
    \/ Mount
    \/ MountEffects
    \/ ListEffect
    \/ Unmount
    \/ \E s \in SocketIds : SigConnect(s)
    \/ \E s \in SocketIds, data \in ConnPayloads, now \in Clock, rnd \in ConnFractions :
          SigNewNotification(s, data, now, rnd)
    \/ MarkAllAsRead
    \/ ClearNotifications

SpecLife == Init /\ [][LifeNext]_vars

(***************************************************************************)
(* Two tabs of one browser.  Each tab runs its own NotificationProvider    *)
(* and its own connection manager; localStorage is the one thing shared.   *)
(***************************************************************************)
\* first render of the provider in tab t: the useState initializer reads
\* the stored text; JSON.parse throws on text that is not JSON
TabMount(t) ==
    /\ ~tabs[t].mounted
    /\ ~InitialThrows(localStorage)
    /\ tabs' = [tabs EXCEPT ![t] =
                   [mounted |-> TRUE, mountPending |-> TRUE, subscribed |-> FALSE,
                    notifications |-> InitialNotifications(localStorage),
                    effectPending |-> TRUE]]
    /\ UNCHANGED <<localStorage, mgrVars, netVars, storeVars, histVars, obs, feedVars,
                   actVars, lastWriter>>

\* the effect flush of tab t: the [notifications] effect writes the tab's
\* list; after the first commit the subscription effect runs as well
TabEffect(t) ==
    /\ tabs[t].mounted /\ tabs[t].effectPending
    /\ localStorage' = persist(localStorage, tabs[t].notifications)
    /\ lastWriter' = t
    /\ tabs' = [tabs EXCEPT ![t].effectPending = FALSE,
                            ![t].mountPending = FALSE,
                            ![t].subscribed = IF tabs[t].mountPending
                                              THEN Subscribes(localStorage)
                                              ELSE @]
    /\ UNCHANGED <<mgrVars, netVars, storeVars, histVars, obs, feedVars, actVars>>

\* the transport of tab t delivers 'newNotification' to the tab's handler
TabInbound(t, data, now, rnd) ==
    /\ tabs[t].mounted /\ tabs[t].subscribed /\ ~tabs[t].effectPending
    /\ Len(tabs[t].notifications) < MaxLen
    /\ tabs' = [tabs EXCEPT ![t].notifications = handleNewNotification(@, data, now, rnd),
                            ![t].effectPending = TRUE]
    /\ UNCHANGED <<localStorage, mgrVars, netVars, storeVars, histVars, obs, feedVars,
                   actVars, lastWriter>>

\* markAllAsRead() in tab t
TabMarkAllAsRead(t) ==
    /\ tabs[t].mounted /\ ~tabs[t].effectPending
    /\ tabs' = [tabs EXCEPT ![t].notifications = markAllAsRead(@),
                            ![t].effectPending = TRUE]
    /\ UNCHANGED <<localStorage, mgrVars, netVars, storeVars, histVars, obs, feedVars,
                   actVars, lastWriter>>

\* clearNotifications() in tab t
TabClearNotifications(t) ==
    /\ tabs[t].mounted /\ ~tabs[t].effectPending
    /\ tabs' = [tabs EXCEPT ![t].notifications = clearNotifications(@),
                            ![t].effectPending = TRUE]
    /\ UNCHANGED <<localStorage, mgrVars, netVars, storeVars, histVars, obs, feedVars,
                   actVars, lastWriter>>

\* tab t is closed
TabUnmount(t) ==
    /\ tabs[t].mounted /\ ~tabs[t].effectPending
    /\ tabs' = [tabs EXCEPT ![t] = TabClosed]
    /\ UNCHANGED <<localStorage, mgrVars, netVars, storeVars, histVars, obs, feedVars,
                   actVars, lastWriter>>

TabsNext ==
    \E t \in Tabs :
        \/ TabMount(t)
        \/ TabEffect(t)
        \/ \E data \in ConnPayloads, now \in Clock, rnd \in Fractions :
              TabInbound(t, data, now, rnd)
        \/ TabMarkAllAsRead(t)
        \/ TabClearNotifications(t)
        \/ TabUnmount(t)

SpecTabs == Init /\ [][TabsNext]_vars

(***************************************************************************)
(* FeedPage: life cycle, pagination and pushed posts.  A state update is   *)
(* queued by its setter and applied by the next render; a callback reads   *)
(* the state values of the render that created it.                         *)
(***************************************************************************)
\* first render and mount effect: without a session the page redirects;
\* otherwise fetchPosts(), setLoading(false), socketManager.connect() and
\* socketManager.on('newPost', handleNewPost).  The observer effect of this
\* render finds no sentinel element (the page renders its spinner).
FeedMount ==
    /\ ~feedUp
    /\ isAuthenticated(localStorage)
    /\ getCurrentUser(localStorage) # NoUser
    /\ RegCount(listeners) < MaxRegs
    /\ feedUp' = TRUE
    /\ requests' = requests (+) SetToBag({[page |-> 1, append |-> FALSE, ids |-> {}]})
    /\ connect
    /\ listeners' = on(listeners, "newPost", FeedCallback)
    /\ dirty' = TRUE
    /\ obs' = [op |-> "feed_mount"]
    /\ UNCHANGED <<tabVars, localStorage, isConnected, authSent, derefError, storeVars, histVars,
                   posts, loadedPostIds, page, hasMore, loadingMore, closure, observing,
                   requested, actVars>>

\* the page unmounts: the mount effect's cleanup runs and the instance's
\* state is gone; responses that arrive later update nothing
FeedUnmount ==
    /\ feedUp
    /\ listeners' = off(listeners, "newPost", FeedCallback)
    /\ feedUp' = FALSE
    /\ posts' = <<>>
    /\ loadedPostIds' = {}
    /\ page' = 1
    /\ hasMore' = TRUE
    /\ loadingMore' = FALSE
    /\ closure' = [page |-> 1, hasMore |-> TRUE, loadingMore |-> FALSE, ids |-> {}]
    /\ observing' = FALSE
    /\ dirty' = FALSE
    /\ requests' = EmptyBag
    /\ requested' = {}
    /\ liked' = {}
    /\ comments' = [p \in PostIds |-> <<>>]
    /\ submittingComment' = FALSE
    /\ commentReq' = NoRequest
    /\ likeReq' = {}
    /\ obs' = [op |-> "feed_unmount"]
    /\ UNCHANGED <<tabVars, localStorage, socket, isConnected, netVars, storeVars, histVars>>

\* the dependencies [loadingMore, hasMore, page] of loadMorePosts differ from
\* those of the memoized callback
DepsChanged ==
    <<loadingMore, hasMore, page>> #
        <<closure.loadingMore, closure.hasMore, closure.page>>

\* a render applies the queued updates.  useCallback keeps the memoized
\* loadMorePosts unless its dependencies changed; the observer effect
\* (dependencies loadMorePosts, hasMore, loadingMore) reruns exactly then and
\* observes the sentinel if the list is rendered
Render ==
    /\ feedUp /\ dirty
    /\ closure' = IF DepsChanged
                  THEN [page |-> page, hasMore |-> hasMore,
                        loadingMore |-> loadingMore, ids |-> loadedPostIds]
                  ELSE closure
    /\ observing' = IF DepsChanged THEN posts # <<>> ELSE observing /\ posts # <<>>
    /\ dirty' = FALSE
    /\ UNCHANGED <<tabVars, obs, localStorage, mgrVars, netVars, storeVars, histVars, feedUp, posts,
                   loadedPostIds, page, hasMore, loadingMore, requests, requested,
                   actVars>>

\* data.posts.filter(p => !loadedPostIds.has(p.id))
NewPosts(data, ids) == SelectSeq(data, LAMBDA p : p \notin ids)

\* the page fetches of loadMorePosts that are in flight
AppendsInFlight ==
    BagCardinality([r \in {x \in BagToSet(requests) : x.append} |-> requests[r]])

\* the observer callback: entries[0].isIntersecting && hasMore && !loadingMore
\* calls loadMorePosts, which returns if (loadingMore || !hasMore) and else
\* setLoadingMore(true), setPage(page + 1), await fetchPosts(page + 1, true),
\* setLoadingMore(false); fetchPosts returns at once without a session
ScrollTrigger ==
    /\ feedUp /\ observing
    /\ closure.hasMore /\ ~closure.loadingMore
    /\ closure.page < MaxPage
    /\ BagCardinality(requests) < MaxInflight
    /\ LET nextPage == closure.page + 1
           authed == getAuthData(localStorage).ok
       IN /\ page' = nextPage
          /\ loadingMore' = authed
          /\ requests' = IF authed
                         THEN requests (+) SetToBag({[page |-> nextPage, append |-> TRUE,
                                                      ids |-> closure.ids]})
                         ELSE requests
          /\ requested' = IF authed THEN requested \cup {nextPage} ELSE requested
          /\ obs' = [op |-> "loadMore", page |-> nextPage, sent |-> authed,
                     inFlight |-> AppendsInFlight,
                     again |-> nextPage \in requested,
                     hasMore |-> hasMore, loadingMore |-> loadingMore]
    /\ dirty' = TRUE
    /\ UNCHANGED <<tabVars, localStorage, mgrVars, netVars, storeVars, histVars, feedUp, posts,
                   loadedPostIds, hasMore, closure, observing, actVars>>

\* the requests fetchPosts can have in flight: the page asked for, whether it
\* is appended, and the loadedPostIds the call captured
Requests ==
    {[page |-> 1, append |-> FALSE, ids |-> {}]} \cup
    {[page |-> n, append |-> TRUE, ids |-> ids] : n \in 2..MaxPage, ids \in SUBSET PostIds}

\* the response of the fetch r in flight arrives with response.ok and
\* fetchPosts resumes: a page that is appended is filtered against the
\* loadedPostIds the call captured; a first page replaces the list.
\* loadMorePosts then runs setLoadingMore(false)
FetchDone(r, data, hasNextPage) ==
    /\ feedUp
    /\ BagIn(r, requests)
    /\ LET newPosts == NewPosts(data, r.ids)
       IN IF r.append
          THEN /\ Len(posts) + Len(newPosts) <= MaxFeed
               /\ posts' = posts \o newPosts
               /\ loadedPostIds' = r.ids \cup ToSet(newPosts)
               /\ loadingMore' = FALSE
               /\ UNCHANGED <<liked, comments>>
          ELSE /\ posts' = data
               /\ loadedPostIds' = ToSet(data)
               /\ liked' = {}
               /\ comments' = [p \in PostIds |-> <<>>]
               /\ UNCHANGED loadingMore
    /\ hasMore' = hasNextPage
    /\ obs' = [op |-> "fetch_done", append |-> r.append, ok |-> TRUE]
    /\ requests' = requests (-) SetToBag({r})
    /\ dirty' = TRUE
    /\ UNCHANGED <<tabVars, localStorage, mgrVars, netVars, storeVars, histVars, feedUp, page,
                   closure, observing, requested, submittingComment, commentReq,
                   likeReq>>

\* the fetch r in flight fails (a response that is not ok, or a rejected
\* fetch): fetchPosts sets the error text; loadMorePosts then runs
\* setLoadingMore(false)
FetchFailed(r) ==
    /\ feedUp
    /\ BagIn(r, requests)
    /\ loadingMore' = IF r.append THEN FALSE ELSE loadingMore
    /\ obs' = [op |-> "fetch_done", append |-> r.append, ok |-> FALSE]
    /\ requests' = requests (-) SetToBag({r})
    /\ dirty' = TRUE
    /\ UNCHANGED <<tabVars, localStorage, mgrVars, netVars, storeVars, histVars, feedUp, page,
                   closure, observing, requested, posts, loadedPostIds, hasMore, actVars>>

\* handleCreatePost after response.ok: setPage(1); fetchPosts(1, false)
RefreshAfterCreate ==
    /\ feedUp
    /\ getCurrentUser(localStorage).type = "celebrity"
    /\ BagCardinality(requests) < MaxInflight
    /\ page' = 1
    /\ requests' = IF getAuthData(localStorage).ok
                   THEN requests (+) SetToBag({[page |-> 1, append |-> FALSE, ids |-> {}]})
                   ELSE requests
    /\ requested' = {}
    /\ dirty' = TRUE
    /\ obs' = [op |-> "refresh"]
    /\ UNCHANGED <<tabVars, localStorage, mgrVars, netVars, storeVars, histVars, feedUp, posts,
                   loadedPostIds, hasMore, loadingMore, closure, observing, actVars>>

\* the server pushes 'newPost' over transport s.  The event reaches the
\* registered callbacks only if the transport's handlers pass it on;
\* handleNewPost prepends the post
PushNewPost(s, post) ==
    /\ status[s] = "connected"
    /\ Len(posts) < MaxFeed
    /\ LET listening == FeedCallback \in ToSet(Registered(listeners, "newPost"))
           delivered == Relays("newPost") /\ listening
       IN /\ posts' = IF delivered THEN <<post>> \o posts ELSE posts
          /\ dirty' = IF delivered THEN TRUE ELSE dirty
          /\ obs' = [op |-> "push", event |-> "newPost", post |-> post, via |-> s,
                     held |-> socket, flag |-> isConnected, mounted |-> feedUp,
                     listening |-> listening, delivered |-> delivered]
    /\ UNCHANGED <<tabVars, localStorage, mgrVars, netVars, storeVars, histVars, feedUp,
                   loadedPostIds, page, hasMore, loadingMore, closure, observing,
                   requests, requested, actVars>>

(***************************************************************************)
(* FeedPage: likes and comments.                                           *)
(***************************************************************************)
\* handleLike(postId): the viewer's id is toggled in the post's likes, then
\* the request is sent; nothing follows the request, whatever its outcome
Like(p) ==
    /\ feedUp
    /\ p \in ToSet(posts)
    /\ p \notin {r.post : r \in likeReq}
    /\ liked' = IF p \in liked THEN liked \ {p} ELSE liked \cup {p}
    /\ IF getAuthData(localStorage).ok
       THEN /\ likeReq' = likeReq \cup {[post |-> p, toggled |-> p \notin liked]}
            /\ obs' = [op |-> "like", post |-> p]
       ELSE /\ UNCHANGED likeReq
            /\ obs' = [op |-> "like_done", post |-> p, outcome |-> "no_session",
                       toggled |-> p \notin liked]
    /\ dirty' = TRUE
    /\ UNCHANGED <<tabVars, localStorage, mgrVars, netVars, storeVars, histVars, feedUp, posts,
                   loadedPostIds, page, hasMore, loadingMore, closure, observing,
                   requests, requested, comments, submittingComment, commentReq>>

RequestOutcomes == {"ok", "not_ok", "network_error"}

\* the like requests: the post, and the like state the handler set
LikeRequests == [post : PostIds, toggled : BOOLEAN]

\* the like request r settles
LikeDone(r, outcome) ==
    /\ feedUp
    /\ r \in likeReq
    /\ likeReq' = likeReq \ {r}
    /\ obs' = [op |-> "like_done", post |-> r.post, outcome |-> outcome,
               toggled |-> r.toggled]
    /\ UNCHANGED <<tabVars, localStorage, mgrVars, netVars, storeVars, histVars, feedVars, liked,
                   comments, submittingComment, commentReq>>

\* comments.map(c => c.id === id ? with : c)
ReplaceComment(q, id, with) == [i \in 1..Len(q) |-> IF q[i] = id THEN with ELSE q[i]]

\* comments.filter(c => c.id !== id)
RemoveComment(q, id) == SelectSeq(q, LAMBDA c : c # id)

\* handleSubmitComment(postId) up to its await: the comment is inserted under
\* the id Date.now(); without a session the handler returns through finally
SubmitComment(p, now) ==
    /\ feedUp
    /\ p \in ToSet(posts)
    /\ ~submittingComment
    /\ commentReq = NoRequest
    /\ Len(comments[p]) < MaxComments
    /\ now \notin ToSet(comments[p])
    /\ comments' = [comments EXCEPT ![p] = Append(@, now)]
    /\ IF getAuthData(localStorage).ok
       THEN /\ submittingComment' = TRUE
            /\ commentReq' = [post |-> p, id |-> now, before |-> comments[p]]
            /\ obs' = [op |-> "comment", post |-> p, id |-> now]
       ELSE /\ submittingComment' = FALSE
            /\ commentReq' = NoRequest
            /\ obs' = [op |-> "comment_done", post |-> p, id |-> now,
                       outcome |-> "no_session", before |-> comments[p]]
    /\ dirty' = TRUE
    /\ UNCHANGED <<tabVars, localStorage, mgrVars, netVars, storeVars, histVars, feedUp, posts,
                   loadedPostIds, page, hasMore, loadingMore, closure, observing,
                   requests, requested, liked, likeReq>>

\* the comment request settles: response.ok replaces the inserted comment by
\* data.comment; a response that is not ok removes it and throws; a rejected
\* fetch goes to catch; finally runs setSubmittingComment(false)
CommentDone(outcome, serverId) ==
    /\ feedUp
    /\ commentReq # NoRequest
    /\ comments' =
          [comments EXCEPT ![commentReq.post] =
              IF outcome = "ok" THEN ReplaceComment(@, commentReq.id, serverId)
              ELSE IF outcome = "not_ok" THEN RemoveComment(@, commentReq.id)
              ELSE @]
    /\ submittingComment' = FALSE
    /\ commentReq' = NoRequest
    /\ obs' = [op |-> "comment_done", post |-> commentReq.post, id |-> commentReq.id,
               outcome |-> outcome, before |-> commentReq.before]
    /\ dirty' = TRUE
    /\ UNCHANGED <<tabVars, localStorage, mgrVars, netVars, storeVars, histVars, feedUp, posts,
                   loadedPostIds, page, hasMore, loadingMore, closure, observing,
                   requests, requested, liked, likeReq>>

\* FeedPage with its like and comment handlers
ActsNext ==
    \/ FeedMount
    \/ Render
    \/ \E r \in Requests, data \in Pages, hasNextPage \in BOOLEAN :
          FetchDone(r, data, hasNextPage)
    \/ \E r \in Requests : FetchFailed(r)
    \/ Logout
    \/ \E p \in PostIds : Like(p)
    \/ \E r \in LikeRequests, outcome \in RequestOutcomes : LikeDone(r, outcome)
    \/ \E p \in PostIds, now \in CommentClock : SubmitComment(p, now)
    \/ \E outcome \in RequestOutcomes, serverId \in ServerCommentIds :
          CommentDone(outcome, serverId)

SpecActs == InitFeed /\ [][ActsNext]_vars

\* FeedPage with its pagination and its refresh after a post was created
FeedNext ==
    \/ FeedMount
    \/ Render
    \/ ScrollTrigger
    \/ \E r \in Requests, data \in Pages, hasNextPage \in BOOLEAN :
          FetchDone(r, data, hasNextPage)
    \/ \E r \in Requests : FetchFailed(r)
    \/ RefreshAfterCreate

SpecFeed == InitFeed /\ [][FeedNext]_vars

\* FeedPage with its newPost listener: mount and unmount, the first page,
\* the transport's signals and the posts the server pushes
PushNext ==
    \/ FeedMount
    \/ FeedUnmount
    \/ Render
    \/ \E r \in Requests, data \in Pages, hasNextPage \in BOOLEAN :
          FetchDone(r, data, hasNextPage)
    \/ \E r \in Requests : FetchFailed(r)
    \/ \E s \in SocketIds : SigConnect(s)
    \/ \E s \in SocketIds : SigDisconnect(s)
    \/ \E s \in SocketIds, post \in PostIds : PushNewPost(s, post)

SpecPush == InitFeed /\ [][PushNext]_vars

(***************************************************************************)
(* Properties.                                                             *)
(***************************************************************************)
Reverse(seq) == [i \in 1..Len(seq) |-> seq[Len(seq) + 1 - i]]

HandlerCount ==
    Cardinality({i \in 1..Len(Registered(listeners, "newNotification")) :
                    Registered(listeners, "newNotification")[i] = StoreCallback})

\* C1: once the list-change effect has run, unreadCount is the number of
\* entries of the list whose read flag is not true.
C1_UnreadCountMatchesList ==
    (mounted /\ ~effectPending) =>
        unreadCount = Cardinality({i \in 1..Len(notifications) :
                        ~("read" \in DOMAIN notifications[i] /\ notifications[i].read = TRUE)})

\* a settled list of three entries, two of them unread and one read
C1_Witness ==
    /\ mounted /\ ~effectPending
    /\ Len(notifications) = 3
    /\ unreadCount = 2
    /\ \E i \in 1..3 : "read" \notin DOMAIN notifications[i]
    /\ \E i \in 1..3 : IsRead(notifications[i])

\* C2: after a run of addNotification calls the list is the added entries in
\* reverse insertion order, followed by the list the run started from.
C2_ReverseInsertionOrder ==
    (mounted /\ lastOp = "add") => notifications = Reverse(addLog) \o base

\* three calls, the first and the third with the same entry
C2_Witness ==
    /\ mounted /\ lastOp = "add"
    /\ Len(addLog) = 3
    /\ addLog[1] = addLog[3]
    /\ addLog[1] # addLog[2]

\* C3: after markAllAsRead() every entry is read, the unread count read once
\* the effect has run is 0, and the list has the entries it had before, in
\* the same order, with their id, celebrityName, content and timestamp.
C3_MarkAllAsRead ==
    lastOp = "markAllAsRead" =>
        /\ \A i \in 1..Len(notifications) :
              "read" \in DOMAIN notifications[i] /\ notifications[i].read = TRUE
        /\ ~effectPending => unreadCount = 0
        /\ Len(notifications) = Len(before)
        /\ \A i \in 1..Len(before) :
              /\ notifications[i].id = before[i].id
              /\ notifications[i].celebrityName = before[i].celebrityName
              /\ notifications[i].content = before[i].content
              /\ notifications[i].timestamp = before[i].timestamp

\* markAllAsRead() acted on a list of three that held an entry without a read
\* flag and an unread one, and the effect has run
C3_Witness ==
    /\ lastOp = "markAllAsRead" /\ ~effectPending
    /\ Len(before) = 3
    /\ \E i \in 1..3 : "read" \notin DOMAIN before[i]
    /\ \E i \in 1..3 : "read" \in DOMAIN before[i] /\ before[i].read = FALSE
    /\ unreadCount = 0

\* C4: clearNotifications() yields the empty list, and unread count 0 once
\* the effect has run.
C4_ClearYieldsEmpty ==
    lastOp = "clear" =>
        /\ notifications = <<>>
        /\ ~effectPending => unreadCount = 0

\* clearNotifications() acted on a list with unread entries; effect has run
C4_Witness ==
    /\ lastOp = "clear" /\ ~effectPending
    /\ Len(before) = 3
    /\ \E i \in 1..3 : ~IsRead(before[i])
    /\ unreadCount = 0

\* C5: a store mounted after a store persisted a list starts with that list:
\* same entries, same order, same read flags (also the absent ones).
C5_RoundTrip ==
    (mounted /\ lastOp = "mount" /\ hasPersisted) => notifications = persisted

\* a remount over a persisted list holding an entry without a read flag, an
\* unread entry and a read entry
C5_Witness ==
    /\ mounted /\ lastOp = "mount" /\ mountPending /\ hasPersisted
    /\ Len(persisted) = 3
    /\ \E i \in 1..3 : "read" \notin DOMAIN persisted[i]
    /\ \E i \in 1..3 : "read" \in DOMAIN persisted[i] /\ persisted[i].read = FALSE
    /\ \E i \in 1..3 : "read" \in DOMAIN persisted[i] /\ persisted[i].read = TRUE

C7_MountNeverFails ==
    /\ lastOp # "mountFailed"
    /\ (lastOp = "mount" /\ mountPending) =>
          /\ mounted
          /\ notifications = IF localStorage[NKey].t = "array"
                             THEN ParseList(localStorage[NKey]) ELSE <<>>

\* C8 (as stated): the entry an inbound payload adds has celebrityName =
\* payload.author.name, 'Celebrity' only when absent; content =
\* payload.post.content, '' when absent; read = false; it is at index 0 and
\* the earlier entries follow unchanged.
C8_InboundAsStated ==
    lastOp = "inbound" =>
        /\ Len(notifications) = Len(before) + 1
        /\ Tail(notifications) = before
        /\ notifications[1].celebrityName =
              (IF lastData.authorName = Undefined THEN "Celebrity" ELSE lastData.authorName)
        /\ notifications[1].content =
              (IF lastData.postContent = Undefined THEN "" ELSE lastData.postContent)
        /\ "read" \in DOMAIN notifications[1] /\ notifications[1].read = FALSE

\* C8 (amended): as C8, with the placeholder 'Celebrity' also when
\* payload.author.name is the empty string.
C8_InboundHandling ==
    lastOp = "inbound" =>
        /\ Len(notifications) = Len(before) + 1
        /\ Tail(notifications) = before
        /\ notifications[1].celebrityName =
              (IF lastData.authorName \in {Undefined, ""}
               THEN "Celebrity" ELSE lastData.authorName)
        /\ notifications[1].content =
              (IF lastData.postContent = Undefined THEN "" ELSE lastData.postContent)
        /\ "read" \in DOMAIN notifications[1] /\ notifications[1].read = FALSE

\* the scenario payload arrived at a subscribed store that held entries
C8_Witness ==
    /\ lastOp = "inbound"
    /\ lastData = [authorName |-> "Zoe", postContent |-> "Hi"]
    /\ Len(before) = 2
    /\ notifications[1].celebrityName = "Zoe"
    /\ notifications[1].content = "Hi"

\* a store whose subscription effect saw a public user holds one
\* newNotification handler; the handler is gone after unmount; a store whose
\* subscription effect saw a celebrity or no user has no handler and no
\* inbound event changes its list
C9_SubscriptionState ==
    /\ (mounted /\ ~mountPending /\ mountRole = "public") => (subscribed /\ HandlerCount = 1)
    /\ ~mounted => HandlerCount = 0
    /\ (mounted /\ mountRole # "public") => (~subscribed /\ HandlerCount = 0)
    /\ lastOp = "inbound" => mountRole = "public"

\* the subscription effect connects the transport for a public user and
\* touches neither the manager nor the transports otherwise
C9_SubscriptionStep ==
    (mountPending /\ ~mountPending') =>
        IF getCurrentUser(localStorage) # NoUser /\ getCurrentUser(localStorage).type = "public"
        THEN /\ socket' # NoSocket
             /\ status'[socket'] \in {"connecting", "connected", "disconnected"}
             /\ mountRole' = "public"
        ELSE /\ UNCHANGED <<socket, status, listeners>>
             /\ mountRole' # "public"

\* C9: the subscription follows user.type at mount, in every state and at
\* every run of the subscription effect.
C9_Subscription == []C9_SubscriptionState /\ [][C9_SubscriptionStep]_vars

\* a store mounted for a celebrity while a transport is connected, after an
\* earlier public store of the page received an event and unmounted
C9_Witness ==
    /\ mounted /\ ~mountPending /\ mountRole = "celebrity"
    /\ \E s \in SocketIds : status[s] = "connected"
    /\ Len(notifications) > 0
    /\ notifications[1].celebrityName = "Zoe"
    /\ HandlerCount = 0

\* C10: at most one transport opened by the manager is live at a time.
C10_AtMostOneLive ==
    Cardinality({s \in SocketIds : status[s] \notin {"unopened", "closed"}}) <= 1

\* C11 as stated: a connect() call made while no token is available returns
\* null, opens no transport and leaves the held transport, the connected flag
\* and the registry as they were.
C11_NoTokenReturnsNull ==
    (obs.op = "connect" /\ ~obs.hadToken) =>
        (obs.ret = NoSocket /\ ~obs.changed)

\* C11: a connect() call made while no token is available attempts no
\* connection: it opens no transport and leaves the held transport, the
\* connected flag and the registry as they were; it returns null unless a
\* connected transport is held, which it then returns.
C11_NoTokenNoAttempt ==
    (obs.op = "connect" /\ ~obs.hadToken) =>
        /\ ~obs.changed
        /\ obs.ret = (IF obs.wasUp THEN obs.held ELSE NoSocket)

\* connect() was called without a session while an unconnected transport was
\* held, and returned null
C11_Witness ==
    /\ obs.op = "connect" /\ ~obs.hadToken
    /\ ~obs.wasUp /\ obs.held # NoSocket /\ obs.ret = NoSocket
    /\ socket = obs.held

\* C12: whenever a transport signals connected the manager sets the connected
\* flag and sends exactly one authenticate message, carrying the token; no
\* authenticate message goes over a transport that has not yet signalled
\* connected; the disconnected and connect_error signals clear the flag.
C12_Handshake ==
    /\ obs.op = "connect_signal" =>
          /\ obs.flag
          /\ Len(obs.sent) = 1
          /\ \A i \in 1..Len(obs.sent) : obs.sent[i].token = obs.token
    /\ obs.op \in {"disconnect_signal", "connect_error_signal"} => ~obs.flag
    /\ \A s \in SocketIds : status[s] = "connecting" => authSent[s] = {}

\* C13: disconnect() with a transport held closes it and leaves the manager
\* with no transport and the connected flag false; disconnect() with no
\* transport held changes nothing; neither changes the listener registry.
C13_Disconnect ==
    obs.op = "disconnect" =>
        /\ obs.held # NoSocket =>
              (obs.closed /\ obs.after = NoSocket /\ ~obs.flag)
        /\ obs.held = NoSocket => ~obs.changed
        /\ obs.registryAfter = obs.registry

\* disconnect() was called twice in a row with a subscriber registered: the
\* second call found no transport
C13_Witness ==
    /\ obs.op = "disconnect" /\ obs.held = NoSocket
    /\ \E s \in SocketIds : status[s] = "closed"
    /\ RegCount(listeners) > 0
    /\ ~isConnected


\* number of occurrences of x in seq
Count(seq, x) == Cardinality({i \in 1..Len(seq) : seq[i] = x})

\* seq without the occurrences of x
Without(seq, x) == SelectSeq(seq, LAMBDA y : y # x)

\* C14: off(event, callback) with a callback that is not registered for the
\* event, or with an event that has no registry entry, raises nothing and
\* leaves the registrations of every event as they were.
C14_OffUnregistered ==
    (obs.op = "off" /\ Count(Registered(obs.registry, obs.event), obs.callback) = 0) =>
        /\ ~obs.raised
        /\ \A e \in Events : Registered(obs.registryAfter, e) = Registered(obs.registry, e)
        /\ DOMAIN obs.registryAfter = DOMAIN obs.registry

\* off() was called with a callback that is not among the subscribers the
\* event has
C14_Witness ==
    /\ obs.op = "off"
    /\ Len(Registered(obs.registry, obs.event)) > 0
    /\ Count(Registered(obs.registry, obs.event), obs.callback) = 0
    /\ listeners = obs.registry

\* C15: registrations are not deduplicated: one dispatch invokes a callback as
\* many times as it is registered for the event; an off(event, callback) that
\* finds the callback removes exactly one of its registrations and nothing
\* else, under this event or any other.
C15_Registrations ==
    /\ obs.op = "emit" =>
          \A cb \in Callbacks :
              Count(obs.invoked, <<obs.event, cb>>)
                  = Count(Registered(obs.registry, obs.event), cb)
    /\ obs.op = "on" =>
          Count(Registered(obs.registryAfter, obs.event), obs.callback)
              = Count(Registered(obs.registry, obs.event), obs.callback) + 1
    /\ (obs.op = "off" /\ Count(Registered(obs.registry, obs.event), obs.callback) > 0) =>
          /\ Count(Registered(obs.registryAfter, obs.event), obs.callback)
                = Count(Registered(obs.registry, obs.event), obs.callback) - 1
          /\ Without(Registered(obs.registryAfter, obs.event), obs.callback)
                = Without(Registered(obs.registry, obs.event), obs.callback)
          /\ \A e \in Events \ {obs.event} :
                Registered(obs.registryAfter, e) = Registered(obs.registry, e)

\* off() removed one of the two registrations of a callback while another
\* callback was registered for the same event
C15_Witness ==
    /\ obs.op = "off"
    /\ Count(Registered(obs.registry, obs.event), obs.callback) = 2
    /\ Count(Registered(listeners, obs.event), obs.callback) = 1
    /\ Len(Registered(listeners, obs.event)) = 2

\* C16: when a relayed event is dispatched and a subscriber throws, every
\* registration of the event is still invoked, each exception is caught, and
\* none leaves the dispatch.
C16_DispatchIsolation ==
    (/\ obs.op = "emit"
     /\ obs.event \in RelayedEvents
     /\ \E cb \in Callbacks : Throws(cb) /\ Count(Registered(obs.registry, obs.event), cb) > 0) =>
        /\ ~obs.escaped
        /\ Len(obs.invoked) = Len(Registered(obs.registry, obs.event))
        /\ \A i \in 1..Len(Registered(obs.registry, obs.event)) :
              \E j \in 1..Len(obs.invoked) :
                  obs.invoked[j][2] = Registered(obs.registry, obs.event)[i]
        /\ obs.caught = Cardinality({i \in 1..Len(Registered(obs.registry, obs.event)) :
                                        Throws(Registered(obs.registry, obs.event)[i])})

\* a dispatch in which the first subscriber threw and a later one ran
C16_Witness ==
    /\ obs.op = "emit"
    /\ Len(obs.invoked) >= 2
    /\ Throws(obs.invoked[1][2])
    /\ ~Throws(obs.invoked[Len(obs.invoked)][2])
    /\ obs.caught >= 1

\* C17: on() appends to the event's array, and a dispatch invokes exactly the
\* callbacks registered for the event when it starts, once per registration
\* and in registration order; callbacks registered under other event names
\* are not invoked.
C17_DispatchOrder ==
    /\ obs.op = "on" =>
          Registered(obs.registryAfter, obs.event)
              = Append(Registered(obs.registry, obs.event), obs.callback)
    /\ obs.op = "emit" =>
          obs.invoked = [i \in 1..Len(Registered(obs.registry, obs.event)) |->
                            <<obs.event, Registered(obs.registry, obs.event)[i]>>]

\* a dispatch to two different subscribers of the event while a callback is
\* registered under another event name
C17_Witness ==
    /\ obs.op = "emit"
    /\ Len(obs.invoked) = 2
    /\ obs.invoked[1] # obs.invoked[2]
    /\ \E e \in Events \ {obs.event} : Len(Registered(obs.registry, e)) > 0

SessionKeys == {"token", "user", "userRole"}

\* the triple getAuthData() assembles from keys that are all there
TripleOf(ls) ==
    [ok |-> TRUE,
     token |-> IF ls["token"].t = "raw" THEN ls["token"].v[1] ELSE "",
     user |-> IF ls["user"].t = "object" THEN ParseUser(ls["user"]) ELSE NoUser,
     userRole |-> IF ls["userRole"].t = "raw" THEN ls["userRole"].v[1] ELSE ""]

\* C18 as stated: getAuthData() never raises; it returns null when one of the
\* three keys is absent or the user text does not parse, and the triple
\* otherwise.
C18_NullOnlyWhenAbsent ==
    obs.op = "read" =>
        /\ ~obs.raised
        /\ obs.authData =
              IF \/ \E k \in SessionKeys : localStorage[k] = Absent
                 \/ ~Parseable(localStorage["user"])
              THEN NoAuth
              ELSE TripleOf(localStorage)

\* C18: getAuthData() never raises; it returns null when one of the three
\* keys is absent or holds the empty string, or the user text does not parse,
\* and the triple (token, parsed user record, role tag) otherwise.
C18_NullWhenMissing ==
    obs.op = "read" =>
        /\ ~obs.raised
        /\ obs.authData =
              IF \/ \E k \in SessionKeys : localStorage[k] \in {Absent, Raw("")}
                 \/ ~Parseable(localStorage["user"])
              THEN NoAuth
              ELSE TripleOf(localStorage)

\* the session was read while only the role tag was absent, and while the
\* user text was not JSON
C18_Witness ==
    /\ obs.op = "read"
    /\ obs.authData = NoAuth
    /\ localStorage["token"] = Raw("tokC")
    /\ \/ localStorage["userRole"] = Absent /\ localStorage["user"] = StringifyUser(CelebUser)
       \/ localStorage["userRole"] = Raw("public") /\ localStorage["user"] = Raw("{oops")

\* a session is stored: the three keys hold text and the user text is a
\* JSON record
SessionStored ==
    /\ \A k \in SessionKeys : Truthy(localStorage[k])
    /\ localStorage["user"].t = "object"

\* the role tag and the role field of the stored user record both equal role
BothRolesAre(role) ==
    /\ SessionStored
    /\ localStorage["userRole"] = Raw(role)
    /\ Member(localStorage["user"].v, "type") = role

\* C19: isCelebrity() is true exactly when a session is stored and the role
\* tag and the user record's role field both equal 'celebrity', isPublicUser()
\* likewise for 'public'; when the two fields disagree isCelebrity() is false;
\* the two predicates are never both true.
C19_RolePredicates ==
    obs.op = "read" =>
        /\ obs.celebrity = BothRolesAre("celebrity")
        /\ obs.publicUser = BothRolesAre("public")
        /\ (/\ SessionStored
            /\ localStorage["userRole"] # Raw(Member(localStorage["user"].v, "type")))
              => ~obs.celebrity
        /\ ~(obs.celebrity /\ obs.publicUser)

\* the predicates were read for a session whose role tag says celebrity and
\* whose user record says public
C19_Witness ==
    /\ obs.op = "read"
    /\ SessionStored
    /\ localStorage["userRole"] = Raw("celebrity")
    /\ Member(localStorage["user"].v, "type") = "public"
    /\ ~obs.celebrity /\ ~obs.publicUser

C21_FailureHandling ==
    /\ (obs.op = "comment_done" /\ obs.outcome # "ok")
          => comments[obs.post] = obs.before
    /\ (obs.op = "like_done" /\ obs.outcome # "ok")
          => (obs.post \in liked) = obs.toggled


\* the ids of the entries in the list stored under starconnect_notifications
StoredIds(ls) ==
    IF Truthy(ls[NKey]) /\ Parseable(ls[NKey])
    THEN {ParseList(ls[NKey])[i].id : i \in 1..Len(ParseList(ls[NKey]))}
    ELSE {}

\* entries leave the stored list only in the write that follows
\* clearNotifications()
C22_RemovedOnlyByClear ==
    ~(StoredIds(localStorage) \subseteq StoredIds(localStorage')) => lastOp' = "clear"

\* a step that ends the session erases token, user and userRole and leaves
\* the stored list as it is
C22_LogoutKeepsList ==
    (getAuthData(localStorage).ok /\ ~getAuthData(localStorage').ok) =>
        /\ \A k \in SessionKeys : localStorage'[k] = Absent
        /\ localStorage'[NKey] = localStorage[NKey]

\* a store that mounts once a list has been persisted starts with that list
C22_MountStartsWithPersisted ==
    (~mounted /\ mounted' /\ hasPersisted) => notifications' = persisted

(***************************************************************************)
(* C22: entries leave the persisted notification list only through         *)
(* clearNotifications(); logout erases token, user and userRole and leaves *)
(* starconnect_notifications unchanged; a store mounted afterwards, also   *)
(* for a different user, starts with the previously persisted list.        *)
(***************************************************************************)
C22_PersistenceSurvivesLogout ==
    [][C22_RemovedOnlyByClear /\ C22_LogoutKeepsList /\ C22_MountStartsWithPersisted]_vars

\* a store mounted for a celebrity after a logout, holding the entry that an
\* earlier store of a public user received and persisted
C22_Witness ==
    /\ mounted /\ ~mountPending /\ mountRole = "celebrity"
    /\ lastOp = "mount"
    /\ notifications # <<>>
    /\ notifications = persisted
    /\ \E i \in 1..Len(notifications) : notifications[i].celebrityName = "Zoe"


\* the stored text is the list of the tab that wrote last, for as long as
\* that tab has not changed its list since
C23_StoredIsLastWriters ==
    \A t \in Tabs :
        (lastWriter = t /\ tabs[t].mounted /\ ~tabs[t].effectPending)
            => localStorage[NKey] = StringifyList(tabs[t].notifications)

\* a write stores the writer's list and nothing else, and only a write
\* changes the stored text
C23_WriteStep ==
    /\ \A t \in Tabs :
          (tabs[t].effectPending /\ ~tabs'[t].effectPending)
              => /\ localStorage'[NKey] = StringifyList(tabs[t].notifications)
                 /\ StoredIds(localStorage') =
                       {tabs[t].notifications[i].id : i \in 1..Len(tabs[t].notifications)}
                 /\ lastWriter' = t
    /\ localStorage'[NKey] # localStorage[NKey]
          => \E t \in Tabs : tabs[t].effectPending /\ ~tabs'[t].effectPending

(***************************************************************************)
(* C23: two tabs share starconnect_notifications without coordination:     *)
(* under every interleaving of their mutations and writes the stored value *)
(* is the in-memory list of the tab that wrote last, and a write never     *)
(* merges the other tab's entries.                                         *)
(***************************************************************************)
C23_LastWriterWins == []C23_StoredIsLastWriters /\ [][C23_WriteStep]_vars

\* both tabs are open and settled, the second wrote last, and the first
\* holds an entry that the stored list has lost
C23_Witness ==
    /\ \A t \in Tabs : tabs[t].mounted /\ ~tabs[t].effectPending
    /\ lastWriter = 2
    /\ tabs[2].notifications # <<>>
    /\ localStorage[NKey] = StringifyList(tabs[2].notifications)
    /\ \E i \in 1..Len(tabs[1].notifications) :
          tabs[1].notifications[i].id \notin StoredIds(localStorage)


(***************************************************************************)
(* C24: after any interleaving of the initial fetch, append-page fetches,  *)
(* the refresh after a post was created and pushed new-post events, no     *)
(* post id appears more than once in the feed's post list.                 *)
(***************************************************************************)
C24_NoDuplicatePosts ==
    \A i, j \in 1..Len(posts) : posts[i] = posts[j] => i = j


(***************************************************************************)
(* C25: while the feed page is mounted with its newPost listener           *)
(* registered and the transport connected, a newPost event pushed by the   *)
(* server is delivered to that listener and the post is prepended to the   *)
(* feed.                                                                   *)
(***************************************************************************)
C25_PushedPostDelivered ==
    (obs.op = "push" /\ obs.mounted /\ obs.listening
        /\ obs.held = obs.via /\ obs.flag)
        => /\ obs.delivered
           /\ posts # <<>>
           /\ posts[1] = obs.post


(***************************************************************************)
(* C30: loadMorePosts starts a fetch only when no load is in progress and  *)
(* hasMore is true: at most one page fetch is in flight at a time, each    *)
(* page number is requested at most once, no page is requested after the   *)
(* backend reported hasNextPage = false, and the loading-more flag is      *)
(* false again after every load completes.                                 *)
(***************************************************************************)
C30_PaginationGuard ==
    /\ AppendsInFlight <= 1
    /\ (obs.op = "loadMore" /\ obs.sent)
          => /\ obs.inFlight = 0
             /\ ~obs.loadingMore
             /\ ~obs.again
             /\ obs.hasMore
    /\ (obs.op = "fetch_done" /\ obs.append) => ~loadingMore


(***************************************************************************)
(* C26: in every state reached by interleaving connect(), disconnect() and *)
(* transport signals, also signals of a transport that was dropped or      *)
(* replaced, the connected flag is true only if the manager holds a        *)
(* transport, and the handler of the connected signal never dereferences   *)
(* an absent transport.                                                    *)
(***************************************************************************)
C26_FlagConsistent ==
    /\ isConnected => socket # NoSocket
    /\ ~derefError


(***************************************************************************)
(* C27: every authenticate message carries the token of the session that   *)
(* is stored at the moment the message is sent; after a logout followed by *)
(* a login as another user, the transport connect() hands to the new       *)
(* session is not one that was authenticated with the previous user's      *)
(* token.                                                                  *)
(***************************************************************************)
C27_SessionBinding ==
    /\ (obs.op = "connect_signal" /\ obs.sent # <<>>) => obs.current
    /\ (obs.op = "connect" /\ obs.hadToken /\ obs.ret # NoSocket) => ~obs.retForeign


\* the three keys hold a session as setAuthData writes it: text under each
\* key and a user record under user
WellFormedSession(ls) ==
    /\ \A k \in SessionKeys : Truthy(ls[k])
    /\ ls["user"].t = "object"

(***************************************************************************)
(* C28: for every content of the three storage keys, also a user key whose *)
(* value parses to something that is not a user record (the JSON text      *)
(* null), isCelebrity(), isPublicUser(), getCurrentUser() and              *)
(* isAuthenticated() return a value and never raise, and malformed session *)
(* data is surfaced as 'no session'.                                       *)
(***************************************************************************)
C28_AccessorsTotal ==
    obs.op = "read" =>
        /\ ~obs.raised
        /\ ~obs.celebrityRaised
        /\ ~obs.publicUserRaised
        /\ ~WellFormedSession(localStorage) =>
              /\ ~obs.authenticated
              /\ obs.authData = NoAuth
              /\ obs.currentUser = NoUser


\* the public-user stores that are mounted: the provider instance, once its
\* mount effects have run for a public user
MountedPublicStores ==
    IF mounted /\ ~mountPending /\ mountRole = "public" THEN 1 ELSE 0

\* the handlers registered under newNotification are the store's, one for
\* each mounted public-user store
C29_HandlersMatchStores ==
    /\ HandlerCount = MountedPublicStores
    /\ Len(Registered(listeners, "newNotification")) = HandlerCount

\* a dispatched newNotification adds one entry to the mounted store, and the
\* list of a store that is not mounted never changes
C29_OneEntryPerEvent ==
    /\ (lastOp' = "inbound" /\ notifications' # notifications)
          => (mounted /\ Len(notifications') = Len(notifications) + 1)
    /\ (~mounted /\ ~mounted') => notifications' = notifications

(***************************************************************************)
(* C29: across any sequence of mount and unmount cycles of the store, the  *)
(* number of newNotification handlers it has registered equals the number  *)
(* of mounted public-user stores (at most one per store, none after        *)
(* unmount), so one dispatched newNotification adds exactly one entry to   *)
(* a mounted store and none to an unmounted one.                           *)
(***************************************************************************)
C29_NoListenerLeak == []C29_HandlersMatchStores /\ [][C29_OneEntryPerEvent]_vars

\* a store mounted again for a public user after an earlier store received
\* an event and unmounted: one handler is registered
C29_Witness ==
    /\ mounted /\ ~mountPending /\ subscribed /\ mountRole = "public"
    /\ lastOp = "mount"
    /\ \E i \in 1..Len(notifications) : notifications[i].celebrityName = "Zoe"
    /\ HandlerCount = 1

====
